---- MODULE Spec2Model ----
(***************************************************************************)
(* Ride lifecycle of the Maxim ride-hailing backend.                       *)
(*                                                                         *)
(* Two iterations of the server are modelled: src/index.js (JWT protected, *)
(* fares and wallets) and src/unnamed/part_000 (unauthenticated ride       *)
(* routes, reviews).  `server` says which of the two files is serving; the *)
(* database (rides, drivers' wallets, rates) is the shared state, and each *)
(* request handler is one action per database call it awaits.              *)
(*                                                                         *)
(* The ride routes know their caller by the id and role of a verified      *)
(* token.  `wallet` and `profile` hold walletBalance, availabilityStatus   *)
(* and vehicleDetails of the driver documents those tokens name; `accounts`*)
(* holds email, passwordHash, role and isBlocked of the documents that the *)
(* register routes insert.                                                 *)
(*                                                                         *)
(* Fares and wallet balances are in cents; the rates collection holds its  *)
(* amounts in tenths of a cent, so that toFixed(2) has something to round. *)
(* A nullable field holds Null or a value; nullable numbers are wrapped in *)
(* a 1-tuple.                                                              *)
(***************************************************************************)
EXTENDS Integers, Sequences, FiniteSets, Bags, TLC

VARIABLES server, profile, accounts, rides, wallet, rates, inflight, done

vars == <<server, profile, accounts, rides, wallet, rates, inflight, done>>

\* ------------------------------------------------------------------ bounds
NumDrivers == 2
MaxRides == 2
MaxReq == 5
MaxWideReq == 3
MaxAuthReq == 4
MaxGuardReq == 2

\* ---------------------------------------------------------------- entities
Null == <<>>
Some(v) == <<v>>
Val(o) == o[1]

Customers == {<<"customer", 1>>}
Drivers == {<<"driver", i>> : i \in 1..NumDrivers}
Admin == <<"admin", 1>>
Anonymous == <<"anonymous", 0>>

Role(u) == u[1]

\* A second customer, for the requests of someone who does not own the ride.
OtherCustomer == <<"customer", 2>>

RideIds == 1..Len(rides)

\* A well-formed id that matches no stored ride, and an id that is no ObjectId.
UnknownRide == 0
MalformedId == -1

\* ObjectId.isValid(req.params.id)
ObjectIdIsValid(id) == id # MalformedId

\* A ride with this _id is stored.
Stored(r) == r \in RideIds

\* The collections that hold accounts, and the role each gives its accounts.
Collections == {"customers", "drivers", "admins"}

RoleOf(c) == CASE c = "customers" -> "customer" [] c = "drivers" -> "driver" [] c = "admins" -> "admin"

\* `email` and `password` of a request body: absent, or a string.
Emails == {Null, Some("a@maxim"), Some("b@maxim")}
Passwords == {Null, Some("secret")}

\* `distanceKm` of a request body: absent, or a number of kilometres.
Distances == {Null, Some(2)}
\* `rating` of a request body.
Ratings == {0, 4}
\* `finalFare` of a request body (part_000): absent, or an amount.
FinalFares == {Null, Some(3000)}

\* { baseFare: 5.00, perKm: 2.50 }, in tenths of a cent.
StandardRate == [baseFare |-> 5000, perKm |-> 2500]
\* `{ baseFare, perKm }` of an admin's request body, in tenths of a cent.
RateInputs == {[baseFare |-> 5000, perKm |-> 2554]}
DefaultDistance == 5
DefaultFare == 2500

\* ------------------------------------------------------------ request log
Issued == BagCardinality(inflight) + BagCardinality(done)

CanIssue == Issued < MaxReq

Request(op, caller, ride, pc, arg, snap) ==
    [op |-> op, caller |-> caller, ride |-> ride, pc |-> pc, arg |-> arg, snap |-> snap]

Response(op, caller, ride, code, msg) ==
    [op |-> op, caller |-> caller, ride |-> ride, code |-> code, msg |-> msg, body |-> Null,
     data |-> Null]

\* The response to a request that carries no token and names no ride.
ResponseTo(op, body, code, msg) ==
    [op |-> op, caller |-> Anonymous, ride |-> UnknownRide, code |-> code, msg |-> msg,
     body |-> body, data |-> Null]

\* A response that carries data: a token, or a list of rides.
ResponseWith(x, data) == [x EXCEPT !.data = data]

Respond(q, code, msg) == Response(q.op, q.caller, q.ride, code, msg)

Await(q) == inflight (+) SetToBag({q})

Resume(q, q2) == (inflight (-) SetToBag({q})) (+) SetToBag({q2})

Finish(q) == inflight (-) SetToBag({q})

Reply(r) == done (+) SetToBag({r})

Pending == BagToSet(inflight)

\* ------------------------------------------------------------------- Init
NewRideIndex(customer, dist, fare) ==
    [customerId |-> customer, driverId |-> Null, status |-> "requested",
     distanceKm |-> Some(dist), estimatedFare |-> Some(fare),
     finalFare |-> Null, rating |-> Null, fare |-> Null, review |-> Null]

\* rate.baseFare + (rate.perKm * dist), in tenths of a cent.
EstimatedFare(rate, dist) == rate.baseFare + rate.perKm * dist

ToFixed2Floor(x) == x \div 10

\* parseFloat(x.toFixed(2)): tenths of a cent to the nearest cent, a half
\* going up.  (A double that is not exactly a half-cent rounds as its
\* decimal value does; the inputs have no half-cent.)
ToFixed2(x) == (x + 5) \div 10

\* availabilityStatus: 'offline' and vehicleDetails of a new driver document.
NewProfile(vehicleDetails) ==
    [availabilityStatus |-> "offline", vehicleDetails |-> vehicleDetails]

\* The collections after connectToMongoDB, with the drivers registered.
InitStores ==
    /\ accounts = [c \in Collections |-> << >>]
    /\ rides = << >>
    /\ wallet = [d \in Drivers |-> 0]
    /\ rates = StandardRate
    /\ inflight = EmptyBag
    /\ done = EmptyBag

Init ==
    /\ server \in {"index", "part000"}
    /\ profile = [d \in Drivers |-> NewProfile(TRUE)]
    /\ InitStores

\* ------------------------------------------------- src/index.js handlers
\* Rides a create request may still add: the collection is capped at MaxRides.
PendingCreates == BagCardinality([q \in {p \in Pending : p.op = "create"} |-> inflight[q]])

\* `distanceKm || 5`
DistanceOf(body) == IF body = Null \/ Val(body) = 0 THEN DefaultDistance ELSE Val(body)

\* POST /api/rides, up to the rates lookup.
IndexCreateRide(u, body) ==
    /\ server = "index"
    /\ CanIssue
    /\ Len(rides) + PendingCreates < MaxRides
    /\ IF Role(u) # "customer"
       THEN /\ done' = Reply(Response("create", u, 0, 403, "Only customers can book"))
            /\ UNCHANGED inflight
       ELSE /\ inflight' = Await(Request("create", u, 0, "insertOne", body, Some(rates)))
            /\ UNCHANGED done
    /\ UNCHANGED <<server, profile, accounts, rides, wallet, rates>>

\* POST /api/rides, the insert and the response.
IndexCreateRideInsert(q) ==
    /\ server = "index"
    /\ q \in Pending
    /\ q.op = "create" /\ q.pc = "insertOne"
    /\ LET dist == DistanceOf(q.arg)
           fare == ToFixed2(EstimatedFare(Val(q.snap), dist))
       IN  /\ rides' = Append(rides, NewRideIndex(q.caller, dist, fare))
           /\ done' = Reply(Response("create", q.caller, Len(rides) + 1, 201, "Ride requested"))
    /\ inflight' = Finish(q)
    /\ UNCHANGED <<server, profile, accounts, wallet, rates>>

IndexCancelFilterOwnerOnly(ride, u) == ride.customerId = u

IndexCancelFilterStatusOnly(ride, u) == ride.status = "requested"

\* Filter of the cancel update (besides _id).
IndexCancelFilter(ride, u) == ride.customerId = u /\ ride.status = "requested"

\* PATCH /api/rides/:id/cancel: one conditional update.
IndexCancel(u, r) ==
    /\ server = "index"
    /\ CanIssue
    /\ IF ~ObjectIdIsValid(r)
       THEN /\ done' = Reply(Response("cancel", u, r, 400, "Invalid ID"))
            /\ UNCHANGED rides
       ELSE IF Stored(r) /\ IndexCancelFilter(rides[r], u)
       THEN /\ rides' = [rides EXCEPT ![r].status = "cancelled"]
            /\ done' = Reply(Response("cancel", u, r, 200, "Ride cancelled"))
       ELSE /\ done' = Reply(Response("cancel", u, r, 409, "Cannot cancel ride."))
            /\ UNCHANGED rides
    /\ UNCHANGED <<server, profile, accounts, wallet, rates, inflight>>

\* GET /api/rides/:id: one lookup.
IndexGetRide(u, r) ==
    /\ server = "index"
    /\ CanIssue
    /\ IF ~ObjectIdIsValid(r)
       THEN done' = Reply(Response("get", u, r, 400, "Invalid ID format for ride lookup"))
       ELSE IF ~Stored(r)
       THEN done' = Reply(Response("get", u, r, 404, "Ride not found"))
       ELSE done' = Reply(Response("get", u, r, 200, "ride"))
    /\ UNCHANGED <<server, profile, accounts, rides, wallet, rates, inflight>>

\* parseInt(rating) of a number without a fraction.
ParseInt(rating) == rating

\* PATCH /api/rides/:id/rate: one unconditional update.
IndexRate(u, r, rating) ==
    /\ server = "index"
    /\ CanIssue
    /\ rides' = [rides EXCEPT ![r].rating = Some(ParseInt(rating))]
    /\ done' = Reply(Response("rate", u, r, 200, "Driver rated successfully!"))
    /\ UNCHANGED <<server, profile, accounts, wallet, rates, inflight>>

IndexAcceptFilterAny(ride) == TRUE

\* Filter of the accept update (besides _id).
IndexAcceptFilter(ride) == ride.status = "requested"

\* PATCH /api/rides/:id/accept: one conditional update.
IndexAccept(u, r) ==
    /\ server = "index"
    /\ CanIssue
    /\ IF Role(u) # "driver"
       THEN /\ done' = Reply(Response("accept", u, r, 403, "Not a driver"))
            /\ UNCHANGED rides
       ELSE IF ~ObjectIdIsValid(r)
       THEN /\ done' = Reply(Response("accept", u, r, 400, "Invalid ID"))
            /\ UNCHANGED rides
       ELSE IF Stored(r) /\ IndexAcceptFilter(rides[r])
       THEN /\ rides' = [rides EXCEPT ![r].status = "accepted", ![r].driverId = u]
            /\ done' = Reply(Response("accept", u, r, 200, "Ride accepted"))
       ELSE /\ done' = Reply(Response("accept", u, r, 409, "Ride already taken."))
            /\ UNCHANGED rides
    /\ UNCHANGED <<server, profile, accounts, wallet, rates, inflight>>

IndexCompleteFilterAny(ride, u) == TRUE

\* Filter of the complete lookup (besides _id).
IndexCompleteFilter(ride, u) == ride.driverId = u

IndexFinalFareAtCurrentRate(ride) == Some(ToFixed2(EstimatedFare(rates, Val(ride.distanceKm))))

\* finalFare: ride.estimatedFare, of the ride the lookup returned.
IndexFinalFare(ride) == ride.estimatedFare

\* PATCH /api/rides/:id/complete, up to the lookup of the ride.
IndexComplete(u, r) ==
    /\ server = "index"
    /\ CanIssue
    /\ IF Role(u) # "driver"
       THEN /\ done' = Reply(Response("complete", u, r, 403, "Not a driver"))
            /\ UNCHANGED inflight
       ELSE IF ~ObjectIdIsValid(r)
       THEN /\ done' = Reply(Response("complete", u, r, 400, "Invalid ID"))
            /\ UNCHANGED inflight
       ELSE IF ~(Stored(r) /\ IndexCompleteFilter(rides[r], u))
       THEN /\ done' = Reply(Response("complete", u, r, 404, "Ride not found or not yours"))
            /\ UNCHANGED inflight
       ELSE /\ inflight' = Await(Request("complete", u, r, "updateRide", Null,
                                         IndexFinalFare(rides[r])))
            /\ UNCHANGED done
    /\ UNCHANGED <<server, profile, accounts, rides, wallet, rates>>

\* PATCH /api/rides/:id/complete, the unconditional update of the ride.
IndexCompleteUpdateRide(q) ==
    /\ server = "index"
    /\ q \in Pending
    /\ q.op = "complete" /\ q.pc = "updateRide"
    /\ rides' = [rides EXCEPT ![q.ride].status = "completed", ![q.ride].finalFare = q.snap]
    /\ inflight' = Resume(q, [q EXCEPT !.pc = "updateWallet"])
    /\ UNCHANGED <<server, profile, accounts, wallet, rates, done>>

\* { $inc: { walletBalance: ride.estimatedFare } }
IndexWalletAfter(balance, q) == balance + Val(q.snap)

\* PATCH /api/rides/:id/complete, the $inc of the wallet and the response.
IndexCompleteUpdateWallet(q) ==
    /\ server = "index"
    /\ q \in Pending
    /\ q.op = "complete" /\ q.pc = "updateWallet"
    /\ wallet' = IF q.caller \in DOMAIN wallet
                 THEN [wallet EXCEPT ![q.caller] = IndexWalletAfter(@, q)]
                 ELSE wallet
    /\ inflight' = Finish(q)
    /\ done' = Reply(Respond(q, 200, "Ride completed"))
    /\ UNCHANGED <<server, profile, accounts, rides, rates>>

IndexCallers == Customers \cup Drivers

\* isAdmin
IsAdmin(u) == Role(u) = "admin"

\* POST /api/admin/rates: one upserting update of the standard rate.
IndexAdminRates(u, body) ==
    /\ server = "index"
    /\ CanIssue
    /\ IF ~IsAdmin(u)
       THEN /\ done' = Reply(Response("rates", u, 0, 403, "Admin access required"))
            /\ UNCHANGED rates
       ELSE /\ rates' = [rates EXCEPT !.baseFare = body.baseFare, !.perKm = body.perKm]
            /\ done' = Reply(Response("rates", u, 0, 200, "Global rates updated"))
    /\ UNCHANGED <<server, profile, accounts, rides, wallet, inflight>>

\* DELETE /api/admin/users/:id of a driver's id: the deleteOne that matches.
IndexDeleteUser(u, id) ==
    /\ server = "index"
    /\ CanIssue
    /\ IF ~IsAdmin(u)
       THEN /\ done' = Reply(Response("deleteUser", u, 0, 403, "Admin access required"))
            /\ UNCHANGED <<wallet, profile>>
       ELSE IF id \notin DOMAIN wallet
       THEN /\ done' = Reply(Response("deleteUser", u, 0, 404, "User not found"))
            /\ UNCHANGED <<wallet, profile>>
       ELSE /\ wallet' = [d \in DOMAIN wallet \ {id} |-> wallet[d]]
            /\ profile' = [d \in DOMAIN profile \ {id} |-> profile[d]]
            /\ done' = Reply(Response("deleteUser", u, 0, 204, ""))
    /\ UNCHANGED <<server, accounts, rides, rates, inflight>>

IndexNext ==
    \/ \E u \in IndexCallers, body \in Distances : IndexCreateRide(u, body)
    \/ \E q \in Pending : IndexCreateRideInsert(q)
    \/ \E u \in IndexCallers, r \in RideIds : IndexCancel(u, r)
    \/ \E u \in IndexCallers, r \in RideIds, rating \in Ratings : IndexRate(u, r, rating)
    \/ \E u \in IndexCallers, r \in RideIds : IndexAccept(u, r)
    \/ \E u \in IndexCallers, r \in RideIds : IndexComplete(u, r)
    \/ \E q \in Pending : IndexCompleteUpdateRide(q)
    \/ \E q \in Pending : IndexCompleteUpdateWallet(q)

\* ----------------------------------------- src/unnamed/part_000 handlers
NewRidePart(customer) ==
    [customerId |-> customer, driverId |-> Null, status |-> "requested",
     distanceKm |-> Null, estimatedFare |-> Null,
     finalFare |-> Null, rating |-> Null, fare |-> Null, review |-> Null]

\* POST /api/rides: validation, insert, verifying read, response.
PartCreateRide(customerId) ==
    /\ server = "part000"
    /\ CanIssue
    /\ Len(rides) < MaxRides
    /\ IF customerId = Null
       THEN /\ done' = Reply(Response("create", Anonymous, 0, 400, "Missing required ride details"))
            /\ UNCHANGED rides
       ELSE /\ rides' = Append(rides, NewRidePart(customerId))
            /\ done' = Reply(Response("create", Anonymous, Len(rides) + 1, 201, "Ride requested successfully"))
    /\ UNCHANGED <<server, profile, accounts, wallet, rates, inflight>>

\* Statuses in which the cancel handler refuses after its read.
PartCancelRefused(ride) == ride.status \in {"accepted", "started", "completed", "cancelled"}

\* PATCH /api/rides/:id/cancel, up to the read of the ride.
PartCancel(r) ==
    /\ server = "part000"
    /\ CanIssue
    /\ IF PartCancelRefused(rides[r])
       THEN /\ done' = Reply(Response("cancel", Anonymous, r, 409, "Cannot cancel ride"))
            /\ UNCHANGED inflight
       ELSE /\ inflight' = Await(Request("cancel", Anonymous, r, "updateOne", Null, Null))
            /\ UNCHANGED done
    /\ UNCHANGED <<server, profile, accounts, rides, wallet, rates>>

\* Filter of the cancel update (besides _id): none.
PartCancelFilter(ride) == TRUE

\* PATCH /api/rides/:id/cancel, the update and the response.
PartCancelUpdate(q) ==
    /\ server = "part000"
    /\ q \in Pending
    /\ q.op = "cancel" /\ q.pc = "updateOne"
    /\ rides' = IF PartCancelFilter(rides[q.ride])
                THEN [rides EXCEPT ![q.ride].status = "cancelled"]
                ELSE rides
    /\ inflight' = Finish(q)
    /\ done' = Reply(Respond(q, 200, "Ride cancelled successfully"))
    /\ UNCHANGED <<server, profile, accounts, wallet, rates>>

\* typeof rating !== 'number' || rating < 1 || rating > 5
PartRatingValid(rating) == rating >= 1 /\ rating <= 5

\* What the review handler requires of the ride it read.
PartReviewAllowed(ride) == ride.status = "completed" /\ ride.review = Null

\* POST /api/rides/:id/review, up to the read of the ride.
PartReview(r, rating) ==
    /\ server = "part000"
    /\ CanIssue
    /\ IF ~PartRatingValid(rating)
       THEN /\ done' = Reply(Response("review", Anonymous, r, 400, "Rating must be a number between 1-5"))
            /\ UNCHANGED inflight
       ELSE IF rides[r].status # "completed"
       THEN /\ done' = Reply(Response("review", Anonymous, r, 409, "Can only review completed rides"))
            /\ UNCHANGED inflight
       ELSE IF ~PartReviewAllowed(rides[r])
       THEN /\ done' = Reply(Response("review", Anonymous, r, 409, "Ride has already been reviewed"))
            /\ UNCHANGED inflight
       ELSE /\ inflight' = Await(Request("review", Anonymous, r, "updateOne", Some(rating), Null))
            /\ UNCHANGED done
    /\ UNCHANGED <<server, profile, accounts, rides, wallet, rates>>

\* POST /api/rides/:id/review, the update and the response.
PartReviewUpdate(q) ==
    /\ server = "part000"
    /\ q \in Pending
    /\ q.op = "review" /\ q.pc = "updateOne"
    /\ rides' = [rides EXCEPT ![q.ride].review = q.arg]
    /\ inflight' = Finish(q)
    /\ done' = Reply(Respond(q, 201, "Review submitted successfully"))
    /\ UNCHANGED <<server, profile, accounts, wallet, rates>>

\* PATCH /api/rides/:id/accept, up to the read of the ride.
PartAccept(r, driverId) ==
    /\ server = "part000"
    /\ CanIssue
    /\ IF driverId = Null
       THEN /\ done' = Reply(Response("accept", Anonymous, r, 400, "Valid Driver ID is required"))
            /\ UNCHANGED inflight
       ELSE IF rides[r].status # "requested"
       THEN /\ done' = Reply(Response("accept", driverId, r, 409, "Ride cannot be accepted"))
            /\ UNCHANGED inflight
       ELSE /\ inflight' = Await(Request("accept", driverId, r, "updateOne", Null, Null))
            /\ UNCHANGED done
    /\ UNCHANGED <<server, profile, accounts, rides, wallet, rates>>

PartAcceptFilterAny(ride) == TRUE

\* Filter of the accept update (besides _id).
PartAcceptFilter(ride) == ride.status = "requested"

\* PATCH /api/rides/:id/accept, the conditional update and the response.
PartAcceptUpdate(q) ==
    /\ server = "part000"
    /\ q \in Pending
    /\ q.op = "accept" /\ q.pc = "updateOne"
    /\ IF PartAcceptFilter(rides[q.ride])
       THEN /\ rides' = [rides EXCEPT ![q.ride].status = "accepted", ![q.ride].driverId = q.caller]
            /\ done' = Reply(Respond(q, 200, "Ride accepted successfully"))
       ELSE /\ done' = Reply(Respond(q, 409, "Ride already accepted by another driver or status changed"))
            /\ UNCHANGED rides
    /\ inflight' = Finish(q)
    /\ UNCHANGED <<server, profile, accounts, wallet, rates>>

\* Statuses from which the complete handler proceeds after its read.
PartCompleteAllowed(ride) == ride.status \in {"accepted", "started"}

\* PATCH /api/rides/:id/complete, up to the read of the ride.
PartComplete(r, finalFare) ==
    /\ server = "part000"
    /\ CanIssue
    /\ IF ~PartCompleteAllowed(rides[r])
       THEN /\ done' = Reply(Response("complete", Anonymous, r, 409, "Ride status must be accepted or started"))
            /\ UNCHANGED inflight
       ELSE /\ inflight' = Await(Request("complete", Anonymous, r, "updateOne", finalFare, rides[r].fare))
            /\ UNCHANGED done
    /\ UNCHANGED <<server, profile, accounts, rides, wallet, rates>>

\* A value's truthiness in `a || b`: null, undefined and 0 are falsy.
Truthy(o) == o # Null /\ Val(o) # 0

\* req.body.finalFare || ride.fare || 25.00
PartFinalFare(finalFare, rideFare) ==
    IF Truthy(finalFare) THEN finalFare
    ELSE IF Truthy(rideFare) THEN rideFare
    ELSE Some(DefaultFare)

\* Filter of the complete update (besides _id): none.
PartCompleteFilter(ride) == TRUE

\* PATCH /api/rides/:id/complete, the update and the response.
PartCompleteUpdate(q) ==
    /\ server = "part000"
    /\ q \in Pending
    /\ q.op = "complete" /\ q.pc = "updateOne"
    /\ rides' = IF PartCompleteFilter(rides[q.ride])
                THEN [rides EXCEPT ![q.ride].status = "completed",
                                   ![q.ride].fare = PartFinalFare(q.arg, q.snap)]
                ELSE rides
    /\ inflight' = Finish(q)
    /\ done' = Reply(Respond(q, 200, "Ride completed successfully"))
    /\ UNCHANGED <<server, profile, accounts, wallet, rates>>

\* DELETE /api/admin/reviews/:id by an admin: $unset of the review.
PartDeleteReview(r) ==
    /\ server = "part000"
    /\ CanIssue
    /\ rides' = [rides EXCEPT ![r].review = Null]
    /\ done' = Reply(Response("deleteReview", Admin, r, 204, ""))
    /\ UNCHANGED <<server, profile, accounts, wallet, rates, inflight>>

PartNext ==
    \/ \E customerId \in Customers \cup {Null} : PartCreateRide(customerId)
    \/ \E r \in RideIds : PartCancel(r)
    \/ \E q \in Pending : PartCancelUpdate(q)
    \/ \E r \in RideIds, rating \in Ratings : PartReview(r, rating)
    \/ \E q \in Pending : PartReviewUpdate(q)
    \/ \E r \in RideIds, driverId \in Drivers \cup {Null} : PartAccept(r, driverId)
    \/ \E q \in Pending : PartAcceptUpdate(q)
    \/ \E r \in RideIds, finalFare \in FinalFares : PartComplete(r, finalFare)
    \/ \E q \in Pending : PartCompleteUpdate(q)
    \/ \E r \in RideIds : PartDeleteReview(r)

Next ==
    \/ IndexNext
    \/ PartNext

Spec == Init /\ [][Next]_vars

\* ------------------------------------------ src/index.js, fares and wallets
InitIndex == Init /\ server = "index"

FareCallers == Customers \cup Drivers \cup {Admin}

FareNext ==
    \/ \E u \in FareCallers, body \in Distances : IndexCreateRide(u, body)
    \/ \E q \in Pending : IndexCreateRideInsert(q)
    \/ \E u \in FareCallers, body \in RateInputs : IndexAdminRates(u, body)
    \/ \E u \in FareCallers, id \in Drivers : IndexDeleteUser(u, id)
    \/ \E u \in Drivers, r \in RideIds : IndexAccept(u, r)
    \/ \E u \in Drivers, r \in RideIds : IndexComplete(u, r)
    \/ \E q \in Pending : IndexCompleteUpdateRide(q)
    \/ \E q \in Pending : IndexCompleteUpdateWallet(q)

SpecFare == InitIndex /\ [][FareNext]_vars

\* --------------------------- src/index.js, any caller and any id in the URL
WideCallers == Customers \cup {OtherCustomer} \cup Drivers \cup {Admin}

UrlIds == RideIds \cup {UnknownRide, MalformedId}

\* With this many callers and ids fewer requests are followed.
WideIssue ==
    /\ Issued < MaxWideReq
    /\ \/ \E u \in WideCallers, body \in Distances : IndexCreateRide(u, body)
       \/ \E u \in WideCallers, r \in UrlIds : IndexGetRide(u, r)
       \/ \E u \in WideCallers, r \in UrlIds : IndexCancel(u, r)
       \/ \E u \in WideCallers, r \in UrlIds : IndexAccept(u, r)
       \/ \E u \in WideCallers, r \in UrlIds : IndexComplete(u, r)

WideNext ==
    \/ WideIssue
    \/ \E q \in Pending : IndexCreateRideInsert(q)
    \/ \E q \in Pending : IndexCompleteUpdateRide(q)
    \/ \E q \in Pending : IndexCompleteUpdateWallet(q)

SpecWide == InitIndex /\ [][WideNext]_vars

\* ------------------------------------------- src/index.js, registration
\* bcrypt.hash(password, SALT_ROUNDS)
Hash(password) == <<"bcrypt", Val(password)>>

\* bcrypt.hash throws when it is given no password.
HashThrows(password) == password = Null

\* createIndex({ email: 1 }, { unique: true }) of the collection: insertOne
\* throws when a document of this collection has the same email (an absent
\* email is indexed as null).
EmailTaken(c, email) ==
    \E i \in 1..Len(accounts[c]) : accounts[c][i].email = email

\* Status of the catch block of a register handler.
RegisterCatchCode(c) == IF c = "admins" THEN 400 ELSE 409

RegisterCatchMsg(c) == IF c = "admins" THEN "Error creating admin" ELSE "Email already exists"

\* POST /api/auth/register/customer, /driver and /admin: hash, insert,
\* response; any exception is answered by the catch block.
IndexRegister(c, email, password) ==
    /\ server = "index"
    /\ CanIssue
    /\ IF HashThrows(password) \/ EmailTaken(c, email)
       THEN /\ done' = Reply(ResponseTo("register", <<c, email, password>>,
                                        RegisterCatchCode(c), RegisterCatchMsg(c)))
            /\ UNCHANGED accounts
       ELSE /\ accounts' = [accounts EXCEPT ![c] = Append(@,
                    [email |-> email, passwordHash |-> Hash(password),
                     role |-> RoleOf(c), isBlocked |-> FALSE])]
            /\ done' = Reply(ResponseTo("register", <<c, email, password>>, 201, "created"))
    /\ UNCHANGED <<server, profile, rides, wallet, rates, inflight>>

AuthNext ==
    /\ Issued < MaxWideReq
    /\ \E c \in Collections, email \in Emails, password \in Passwords :
           IndexRegister(c, email, password)

SpecAuth == InitIndex /\ [][AuthNext]_vars

\* ------------------------------------------ src/index.js, login and blocking
\* The accounts of this part register with an email and a password.
LoginEmails == Emails \ {Null}

RegisterPasswords == {Some("secret")}
LoginPasswords == {Some("secret"), Some("wrong")}

\* _id of the i-th account inserted into collection c.
AccountId(c, i) == <<RoleOf(c), i>>

\* A collection holds at most one account of each email.
AccountIds == {AccountId(c, i) : c \in Collections, i \in 1..Cardinality(LoginEmails)}

\* The accounts of collection c that findOne({ email }) matches.
FoundIn(c, email) == {i \in 1..Len(accounts[c]) : accounts[c][i].email = email}

\* The collection in which login finds its user: customers, else drivers,
\* else admins; Null when none has the email.
LoginCollection(email) ==
    IF FoundIn("customers", email) # {} THEN Some("customers")
    ELSE IF FoundIn("drivers", email) # {} THEN Some("drivers")
    ELSE IF FoundIn("admins", email) # {} THEN Some("admins")
    ELSE Null

\* bcrypt.compare(password, passwordHash)
Compare(password, passwordHash) == Hash(password) = passwordHash

\* jwt.sign({ id: user._id, email: user.email, role: user.role }, ...)
Token(id, user) == <<id, user.email, user.role>>

\* POST /api/auth/login.  The handler only reads, one collection after the
\* other; its lookups and its answer are taken as one step.
IndexLogin(email, password) ==
    /\ server = "index"
    /\ Issued < MaxAuthReq
    /\ LET c == LoginCollection(email)
           x == ResponseTo("login", <<email, password>>, 401, "Invalid credentials")
       IN  IF c = Null
           THEN done' = Reply(x)
           ELSE LET i == CHOOSE j \in FoundIn(Val(c), email) : TRUE
                    user == accounts[Val(c)][i]
                IN  IF ~Compare(password, user.passwordHash)
                    THEN done' = Reply(x)
                    ELSE IF user.isBlocked
                    THEN done' = Reply([x EXCEPT !.code = 403,
                                                 !.msg = "Account is blocked by Admin."])
                    ELSE done' = Reply(ResponseWith(
                                     [x EXCEPT !.code = 200, !.msg = "Login successful"],
                                     Token(AccountId(Val(c), i), user)))
    /\ UNCHANGED <<server, profile, accounts, rides, wallet, rates, inflight>>

\* The collection whose updateOne matches the id: customers, else drivers,
\* else admins.
HoldsId(c, id) == \E i \in 1..Len(accounts[c]) : AccountId(c, i) = id

\* PATCH /api/admin/users/:id/block: $set isBlocked on the account with
\* this _id.
IndexBlockUser(u, id, isBlocked) ==
    /\ server = "index"
    /\ Issued < MaxAuthReq
    /\ IF ~IsAdmin(u)
       THEN /\ done' = Reply(Response("block", u, 0, 403, "Admin access required"))
            /\ UNCHANGED accounts
       ELSE IF \A c \in Collections : ~HoldsId(c, id)
       THEN /\ done' = Reply(Response("block", u, 0, 404, "User not found"))
            /\ UNCHANGED accounts
       ELSE /\ accounts' = [c \in Collections |->
                    [i \in 1..Len(accounts[c]) |->
                        IF AccountId(c, i) = id
                        THEN [accounts[c][i] EXCEPT !.isBlocked = isBlocked]
                        ELSE accounts[c][i]]]
            /\ done' = Reply([Response("block", u, 0, 200, "Block status updated")
                                 EXCEPT !.body = <<id, isBlocked>>])
    /\ UNCHANGED <<server, profile, rides, wallet, rates, inflight>>

LoginNext ==
    \/ /\ Issued < MaxAuthReq
       /\ \E c \in Collections, email \in LoginEmails, password \in RegisterPasswords :
              IndexRegister(c, email, password)
    \/ \E u \in {Admin} \cup Customers, id \in AccountIds, isBlocked \in BOOLEAN :
           IndexBlockUser(u, id, isBlocked)
    \/ \E email \in LoginEmails, password \in LoginPasswords : IndexLogin(email, password)

SpecLogin == InitIndex /\ [][LoginNext]_vars

\* ------------------------------------- src/index.js, database calls that fail
\* A database call fails when it rejects, or throws because connectToMongoDB
\* caught its error and left `db` undefined.

\* The routes whose handler awaits its database calls outside any try/catch,
\* and the callers and ids that get as far as the first database call.
ReachesDb(op, u, r) ==
    CASE op = "create" -> Role(u) = "customer"
      [] op = "cancel" -> ObjectIdIsValid(r)
      [] op = "rate" -> ObjectIdIsValid(r)
      [] op = "accept" -> Role(u) = "driver" /\ ObjectIdIsValid(r)
      [] op = "complete" -> Role(u) = "driver" /\ ObjectIdIsValid(r)
      [] op = "rates" -> IsAdmin(u)
      [] op = "deleteUser" -> IsAdmin(u)

UnguardedOps == {"create", "cancel", "rate", "accept", "complete", "rates", "deleteUser"}

\* The promise of an async handler rejects and the handler has no catch:
\* Express 5 passes the rejection to its error handler, which answers 500;
\* Express 4 does not look at the promise, and the request is never answered.
Rejected(q) ==
    \/ /\ inflight' = (inflight (-) SetToBag({q}))
       /\ done' = Reply(Respond(q, 500, "Internal Server Error"))
    \/ /\ inflight' = (inflight (-) SetToBag({q})) (+) SetToBag({[q EXCEPT !.pc = "rejected"]})
       /\ UNCHANGED done

\* The first database call of an unguarded handler fails.
IndexFirstCallFails(op, u, r) ==
    /\ server = "index"
    /\ CanIssue
    /\ ReachesDb(op, u, r)
    /\ Rejected(Request(op, u, r, "first", Null, Null))
    /\ UNCHANGED <<server, profile, accounts, rides, wallet, rates>>

\* A later database call of an unguarded handler fails: the insert of
\* POST /api/rides, or an update of PATCH /api/rides/:id/complete.
IndexLaterCallFails(q) ==
    /\ server = "index"
    /\ q \in Pending
    /\ q.pc \in {"insertOne", "updateRide", "updateWallet"}
    /\ Rejected(q)
    /\ UNCHANGED <<server, profile, accounts, rides, wallet, rates>>

\* The lookup of GET /api/rides/:id fails: its catch answers 500.
IndexGetRideFails(u, r) ==
    /\ server = "index"
    /\ CanIssue
    /\ ObjectIdIsValid(r)
    /\ done' = Reply(Response("get", u, r, 500, "Server Error"))
    /\ UNCHANGED <<server, profile, accounts, rides, wallet, rates, inflight>>

DbIssue ==
    /\ Issued < MaxWideReq
    /\ \/ \E u \in FareCallers, body \in Distances : IndexCreateRide(u, body)
       \/ \E u \in FareCallers, r \in RideIds : IndexGetRide(u, r)
       \/ \E u \in FareCallers, r \in RideIds : IndexAccept(u, r)
       \/ \E u \in FareCallers, r \in RideIds : IndexComplete(u, r)
       \/ \E op \in UnguardedOps, u \in FareCallers, r \in RideIds \cup {UnknownRide} :
              IndexFirstCallFails(op, u, r)
       \/ \E u \in FareCallers, r \in RideIds \cup {UnknownRide} : IndexGetRideFails(u, r)

DbNext ==
    \/ DbIssue
    \/ \E q \in Pending : IndexCreateRideInsert(q)
    \/ \E q \in Pending : IndexCompleteUpdateRide(q)
    \/ \E q \in Pending : IndexCompleteUpdateWallet(q)
    \/ \E q \in Pending : IndexLaterCallFails(q)

SpecDb == InitIndex /\ [][DbNext]_vars

\* ------------------------------- src/index.js, drivers going online, available rides
\* `status` of the body of PATCH /api/drivers/status.
Statuses == {"online", "offline"}

\* PATCH /api/drivers/status, for 'online' up to the lookup of the driver;
\* for another status the whole handler, which is one update.
IndexDriverStatus(u, status) ==
    /\ server = "index"
    /\ CanIssue
    /\ IF Role(u) # "driver"
       THEN /\ done' = Reply(Response("status", u, 0, 403, "Not a driver"))
            /\ UNCHANGED <<profile, inflight>>
       ELSE IF status # "online"
       THEN /\ profile' = IF u \in DOMAIN profile
                          THEN [profile EXCEPT ![u].availabilityStatus = status]
                          ELSE profile
            /\ done' = Reply(Response("status", u, 0, 200, "Status updated"))
            /\ UNCHANGED inflight
       ELSE IF u \notin DOMAIN profile
       THEN /\ Rejected(Request("status", u, 0, "first", Null, Null))
            /\ UNCHANGED profile
       ELSE IF ~profile[u].vehicleDetails
       THEN /\ done' = Reply(Response("status", u, 0, 400, "Register vehicle first."))
            /\ UNCHANGED <<profile, inflight>>
       ELSE /\ inflight' = Await(Request("status", u, 0, "updateOne", Null, Null))
            /\ UNCHANGED <<profile, done>>
    /\ UNCHANGED <<server, accounts, rides, wallet, rates>>

\* PATCH /api/drivers/status to 'online': the update and the response.
IndexDriverStatusUpdate(q) ==
    /\ server = "index"
    /\ q \in Pending
    /\ q.op = "status" /\ q.pc = "updateOne"
    /\ profile' = IF q.caller \in DOMAIN profile
                  THEN [profile EXCEPT ![q.caller].availabilityStatus = "online"]
                  ELSE profile
    /\ inflight' = Finish(q)
    /\ done' = Reply(Respond(q, 200, "Status updated"))
    /\ UNCHANGED <<server, accounts, rides, wallet, rates>>

\* GET /api/rides/available, up to the lookup of the driver.
IndexAvailable(u) ==
    /\ server = "index"
    /\ CanIssue
    /\ IF Role(u) # "driver"
       THEN /\ done' = Reply(Response("available", u, 0, 403, "Not a driver"))
            /\ UNCHANGED inflight
       ELSE IF u \notin DOMAIN profile
       THEN /\ done' = Reply(Response("available", u, 0, 404, "Driver not found"))
            /\ UNCHANGED inflight
       ELSE IF profile[u].availabilityStatus # "online"
       THEN /\ done' = Reply(Response("available", u, 0, 403,
                                      "You are offline. Go Online to see rides."))
            /\ UNCHANGED inflight
       ELSE /\ inflight' = Await(Request("available", u, 0, "find", Null, Null))
            /\ UNCHANGED done
    /\ UNCHANGED <<server, profile, accounts, rides, wallet, rates>>

AvailableFilterAny(ride) == TRUE

\* find({ status: 'requested' })
AvailableFilter(ride) == ride.status = "requested"

\* .toArray(): the _ids of the matching rides, in the order of insertion.
Find(n) ==
    SelectSeq([i \in 1..n |-> i], LAMBDA i : AvailableFilter(rides[i]))

\* GET /api/rides/available: the read of the rides and the response.
IndexAvailableFind(q) ==
    /\ server = "index"
    /\ q \in Pending
    /\ q.op = "available" /\ q.pc = "find"
    /\ inflight' = Finish(q)
    /\ done' = Reply(ResponseWith(Respond(q, 200, "rides"), Find(Len(rides))))
    /\ UNCHANGED <<server, profile, accounts, rides, wallet, rates>>

\* Some drivers registered with vehicleDetails, some without.
InitAvail ==
    /\ server = "index"
    /\ profile \in [Drivers -> {NewProfile(v) : v \in BOOLEAN}]
    /\ InitStores

AvailNext ==
    \/ \E u \in Customers, body \in {Null} : IndexCreateRide(u, body)
    \/ \E q \in Pending : IndexCreateRideInsert(q)
    \/ \E u \in Customers, r \in RideIds : IndexCancel(u, r)
    \/ \E u \in Drivers, r \in RideIds : IndexAccept(u, r)
    \/ \E u \in IndexCallers, status \in Statuses : IndexDriverStatus(u, status)
    \/ \E q \in Pending : IndexDriverStatusUpdate(q)
    \/ \E u \in IndexCallers : IndexAvailable(u)
    \/ \E q \in Pending : IndexAvailableFind(q)
    \/ \E id \in Drivers : IndexDeleteUser(Admin, id)

SpecAvail == InitAvail /\ [][AvailNext]_vars

\* ---------------------------------- src/index.js, authenticateToken and isAdmin
\* A request whose Authorization header carries a token that jwt.verify
\* rejects (forged, expired, signed with another secret).
InvalidToken == <<"invalid", 0>>

AuthenticateTokenNoVerify(u) == IF u = Anonymous THEN Some(401) ELSE Null

\* authenticateToken: the status it answers with, or Null when it calls next().
AuthenticateToken(u) ==
    IF u = Anonymous THEN Some(401)
    ELSE IF u = InvalidToken THEN Some(403)
    ELSE Null

AuthenticateMsg(code) == IF code = 401 THEN "Access token required" ELSE "Invalid token"

\* A route registered as app.METHOD(path, authenticateToken, ..., handler).
Protected(op, u, r, handler) ==
    IF AuthenticateToken(u) # Null
    THEN /\ server = "index"
         /\ CanIssue
         /\ done' = Reply(Response(op, u, r, Val(AuthenticateToken(u)),
                                   AuthenticateMsg(Val(AuthenticateToken(u)))))
         /\ UNCHANGED <<server, profile, accounts, rides, wallet, rates, inflight>>
    ELSE handler

\* GET /api/rides/history/all: one read.
IndexHistory(u) ==
    /\ server = "index"
    /\ CanIssue
    /\ done' = Reply(Response("history", u, 0, 200, "rides"))
    /\ UNCHANGED <<server, profile, accounts, rides, wallet, rates, inflight>>

\* GET /api/auth/me: one lookup of the caller's document.
IndexMe(u) ==
    /\ server = "index"
    /\ CanIssue
    /\ IF Role(u) = "driver" /\ u \notin DOMAIN profile
       THEN done' = Reply(Response("me", u, 0, 404, "User not found"))
       ELSE done' = Reply(Response("me", u, 0, 200, "user"))
    /\ UNCHANGED <<server, profile, accounts, rides, wallet, rates, inflight>>

\* GET /api/admin/rates and GET /api/admin/users: reads behind isAdmin.
IndexAdminGet(op, u) ==
    /\ server = "index"
    /\ CanIssue
    /\ IF ~IsAdmin(u)
       THEN done' = Reply(Response(op, u, 0, 403, "Admin access required"))
       ELSE done' = Reply(Response(op, u, 0, 200, "ok"))
    /\ UNCHANGED <<server, profile, accounts, rides, wallet, rates, inflight>>

AdminOps == {"rates", "getRates", "users", "block", "deleteUser"}

ProtectedOps ==
    {"available", "history", "me", "create", "cancel", "rate", "get", "status", "accept",
     "complete"} \cup AdminOps

GuardCallers == {Anonymous, InvalidToken, Admin, <<"driver", 1>>} \cup Customers

\* A customer account, and a ride that is requested or that driver 1 accepted.
InitGuard ==
    /\ server = "index"
    /\ profile = [d \in Drivers |-> NewProfile(TRUE)]
    /\ accounts = [c \in Collections |->
                     IF c = "customers"
                     THEN <<[email |-> Some("a@maxim"), passwordHash |-> Hash(Some("secret")),
                             role |-> "customer", isBlocked |-> FALSE]>>
                     ELSE << >>]
    /\ \E u \in Customers :
          rides \in {<<NewRideIndex(u, DefaultDistance, ToFixed2(EstimatedFare(StandardRate, DefaultDistance)))>>,
                     <<[NewRideIndex(u, DefaultDistance, ToFixed2(EstimatedFare(StandardRate, DefaultDistance)))
                          EXCEPT !.status = "accepted", !.driverId = <<"driver", 1>>]>>}
    /\ wallet = [d \in Drivers |-> 0]
    /\ rates = StandardRate
    /\ inflight = EmptyBag
    /\ done = EmptyBag

GuardIssue ==
    /\ Issued < MaxGuardReq
    /\ \E u \in GuardCallers, r \in RideIds \cup {UnknownRide} :
        \/ Protected("create", u, 0, IndexCreateRide(u, Null))
        \/ Protected("cancel", u, r, IndexCancel(u, r))
        \/ \E rating \in Ratings : Protected("rate", u, r, Stored(r) /\ IndexRate(u, r, rating))
        \/ Protected("get", u, r, IndexGetRide(u, r))
        \/ Protected("accept", u, r, IndexAccept(u, r))
        \/ Protected("complete", u, r, IndexComplete(u, r))
        \/ \E status \in Statuses : Protected("status", u, 0, IndexDriverStatus(u, status))
        \/ Protected("available", u, 0, IndexAvailable(u))
        \/ Protected("history", u, 0, IndexHistory(u))
        \/ Protected("me", u, 0, IndexMe(u))
        \/ \E body \in RateInputs : Protected("rates", u, 0, IndexAdminRates(u, body))
        \/ \E op \in {"getRates", "users"} : Protected(op, u, 0, IndexAdminGet(op, u))
        \/ Protected("block", u, 0, IndexBlockUser(u, AccountId("customers", 1), TRUE))
        \/ \E id \in Drivers : Protected("deleteUser", u, 0, IndexDeleteUser(u, id))

GuardNext ==
    \/ GuardIssue
    \/ \E q \in Pending : IndexCreateRideInsert(q)
    \/ \E q \in Pending : IndexCompleteUpdateRide(q)
    \/ \E q \in Pending : IndexCompleteUpdateWallet(q)
    \/ \E q \in Pending : IndexDriverStatusUpdate(q)
    \/ \E q \in Pending : IndexAvailableFind(q)

SpecGuard == InitGuard /\ [][GuardNext]_vars

\* ------------------------------------------------------------ properties
Responses == BagToSet(done)

\* Number of responses of the log that belong to S.
Tally(S) == BagCardinality([x \in S \cap Responses |-> done[x]])

\* Responses and requests a step adds, and requests a step takes up.
NewResponses == {x \in BagToSet(done') : CopiesIn(x, done') > CopiesIn(x, done)}
Admitted == {q \in BagToSet(inflight') : CopiesIn(q, inflight') > CopiesIn(q, inflight)}
Resumed == {q \in Pending : CopiesIn(q, inflight') < CopiesIn(q, inflight)}

AcceptsOf(r) == {x \in Responses : x.op = "accept" /\ x.ride = r /\ Role(x.caller) = "driver"}

\* Ride r has seen only finished accept requests of at least two drivers,
\* and no cancel request.
OnlyAccepts(r) ==
    /\ \A q \in Pending : q.ride = r => q.op \notin {"accept", "cancel"}
    /\ \A x \in Responses : x.ride = r => x.op # "cancel"
    /\ Cardinality({x.caller : x \in AcceptsOf(r)}) >= 2

\* C1: when the accept requests of N >= 2 distinct drivers on a requested
\* ride have all been answered (and nothing cancelled the ride), exactly one
\* of them reported success and each of the others got 409.
C1_ExactlyOneAccept ==
    \A r \in RideIds :
        OnlyAccepts(r) =>
            /\ Tally({x \in AcceptsOf(r) : x.code = 200}) = 1
            /\ Tally({x \in AcceptsOf(r) : x.code = 409}) = Tally(AcceptsOf(r)) - 1

C1_Witness ==
    /\ server = "part000"
    /\ \E r \in RideIds :
        /\ OnlyAccepts(r)
        /\ \E x \in AcceptsOf(r) :
            /\ x.code = 409
            /\ x.msg = "Ride already accepted by another driver or status changed"

\* C2: in src/index.js a cancel request reports success only by a write that
\* found the status 'requested' and set it to 'cancelled'; any other cancel
\* request is answered 409 and changes no ride, and nothing else sets a
\* status to 'cancelled'.
C2_IndexCancelOnlyRequested ==
    [][server = "index" =>
        /\ \A x \in NewResponses : x.op = "cancel" =>
            IF x.code = 200
            THEN /\ rides[x.ride].status = "requested"
                 /\ rides' = [rides EXCEPT ![x.ride].status = "cancelled"]
            ELSE x.code = 409 /\ rides' = rides
        /\ \A r \in RideIds :
            (rides'[r].status = "cancelled" /\ rides[r].status # "cancelled")
                => rides[r].status = "requested"]_vars

C2_Witness ==
    /\ server = "index"
    /\ \E x \in Responses :
        /\ x.op = "cancel" /\ x.code = 409
        /\ x.caller = rides[x.ride].customerId
        /\ rides[x.ride].status \in {"accepted", "completed"}
    /\ \E x \in Responses : x.op = "cancel" /\ x.code = 200

\* C3: in part_000 a cancel request writes 'cancelled' and reports success
\* only if the stored status is 'requested' at the moment of the write.
C3_PartCancelOnlyRequested ==
    [][server = "part000" =>
        /\ \A x \in NewResponses : (x.op = "cancel" /\ x.code = 200) =>
            rides[x.ride].status = "requested"
        /\ \A r \in RideIds :
            (rides'[r].status = "cancelled" /\ rides[r].status # "cancelled")
                => rides[r].status = "requested"]_vars

\* C4: in src/index.js a complete request on a ride whose status is already
\* 'completed' is rejected at the lookup: it is never taken up to write the
\* ride and credit the wallet.
C4_IndexCompleteRejectsCompleted ==
    [][server = "index" =>
        \A q \in Admitted : q.op = "complete" => rides[q.ride].status # "completed"]_vars

\* C5: in part_000 at most one complete request per ride reports success.
C5_PartCompleteAtMostOnce ==
    server = "part000" =>
        \A r \in RideIds :
            Tally({x \in Responses : x.op = "complete" /\ x.ride = r /\ x.code = 200}) <= 1

\* C6: in src/index.js finalFare is written at most once per ride (only
\* while it is still unset), and once set it keeps its value.
C6_IndexFinalFareOnce ==
    [][server = "index" =>
        /\ \A q \in Resumed : (q.op = "complete" /\ q.pc = "updateRide") =>
            rides[q.ride].finalFare = Null
        /\ \A r \in RideIds :
            rides[r].finalFare # Null => rides'[r].finalFare = rides[r].finalFare]_vars

\* C7: in part_000 a review request is taken up only if the ride's status
\* is 'completed', and it reports success only if no review request on that
\* ride has reported success before.
C7_PartReviewAtMostOnce ==
    [][server = "part000" =>
        /\ \A q \in Admitted : q.op = "review" => rides[q.ride].status = "completed"
        /\ \A x \in NewResponses : (x.op = "review" /\ x.code = 201) =>
            Tally({y \in Responses : y.op = "review" /\ y.ride = x.ride /\ y.code = 201}) = 0]_vars

\* C8: in src/index.js the stored rating of a ride changes only when the
\* ride is completed and has no rating yet.
C8_IndexRateOnceAfterCompletion ==
    [][server = "index" =>
        \A r \in RideIds :
            rides'[r].rating # rides[r].rating =>
                rides[r].status = "completed" /\ rides[r].rating = Null]_vars

\* C9: in src/index.js every ride has a driverId if and only if its status
\* is accepted, started or completed.
C9_IndexDriverIffAssigned ==
    server = "index" =>
        \A r \in RideIds :
            rides[r].driverId # Null <=> rides[r].status \in {"accepted", "started", "completed"}

C9_Witness ==
    /\ server = "index"
    /\ \E r \in RideIds : rides[r].status = "completed" /\ rides[r].driverId \in Drivers
    /\ \E r \in RideIds : rides[r].status = "cancelled" /\ rides[r].driverId = Null

\* C10: in src/index.js every ride has a finalFare if and only if its status
\* is 'completed'.
C10_IndexFinalFareIffCompleted ==
    server = "index" =>
        \A r \in RideIds : rides[r].finalFare # Null <=> rides[r].status = "completed"

C10_Witness ==
    /\ server = "index"
    /\ \E r \in RideIds :
        /\ rides[r].status = "completed"
        /\ rides[r].finalFare = rides[r].estimatedFare
        /\ \E x \in Responses : x.op = "accept" /\ x.ride = r /\ x.code = 409

\* C11: in src/index.js a ride whose status is 'completed' or 'cancelled'
\* keeps that status in every later step, whatever request is served.
C11_IndexTerminalIsFinal ==
    [][server = "index" =>
        \A r \in RideIds :
            rides[r].status \in {"completed", "cancelled"} =>
                rides'[r].status = rides[r].status]_vars

C11_Witness ==
    /\ server = "index"
    /\ \E r \in RideIds :
        /\ rides[r].status = "completed"
        /\ \E x \in Responses : x.op = "cancel" /\ x.ride = r /\ x.code = 409
                                /\ x.caller = rides[r].customerId
        /\ Tally({x \in Responses : x.op = "complete" /\ x.ride = r /\ x.code = 200}) >= 2

\* The amount `cents` is `raw` (tenths of a cent) rounded to two decimals.
RoundedTo(raw, cents) == 10 * cents - 5 <= raw /\ raw <= 10 * cents + 5

\* The ride a step inserts, if it inserts one.
Inserted == IF Len(rides') = Len(rides) + 1 THEN {rides'[Len(rides')]} ELSE {}

\* C12 as stated: every ride POST /api/rides inserts has estimatedFare equal
\* to baseFare + perKm * distanceKm rounded to two decimals, for the standard
\* rate stored when the ride is inserted; 5 km at 5.00 + 2.50/km is 17.50.
C12_IndexEstimateAtStoredRate ==
    [][server = "index" =>
        \A ride \in Inserted :
            /\ RoundedTo(rates.baseFare + rates.perKm * Val(ride.distanceKm),
                         Val(ride.estimatedFare))
            /\ (Val(ride.distanceKm) = 5 /\ rates = StandardRate)
                  => Val(ride.estimatedFare) = 1750]_vars

\* C12 as amended: the rate is the one the request read from the rates
\* collection before it inserted the ride.
C12_IndexEstimateAtReadRate ==
    [][server = "index" =>
        \A ride \in Inserted :
            \E q \in Resumed :
                /\ q.op = "create"
                /\ RoundedTo(Val(q.snap).baseFare + Val(q.snap).perKm * Val(ride.distanceKm),
                             Val(ride.estimatedFare))
                /\ (Val(ride.distanceKm) = 5 /\ Val(q.snap) = StandardRate)
                      => Val(ride.estimatedFare) = 1750]_vars

C12_Witness ==
    /\ server = "index"
    /\ \E r \in RideIds : rides[r].distanceKm = Some(5) /\ rides[r].estimatedFare = Some(1750)
    /\ \E r \in RideIds : rides[r].distanceKm = Some(2) /\ rides[r].estimatedFare = Some(1011)

\* C13: in src/index.js no step changes the estimatedFare of a stored ride,
\* a rate update changes no ride at all, and the finalFare a ride receives is
\* the estimate it was created with.
C13_IndexRateUpdateKeepsRides ==
    [][server = "index" =>
        /\ rates' # rates => rides' = rides
        /\ \A r \in RideIds :
            /\ rides'[r].estimatedFare = rides[r].estimatedFare
            /\ rides'[r].finalFare # Null => rides'[r].finalFare = rides[r].estimatedFare]_vars

C13_Witness ==
    /\ server = "index"
    /\ rates # StandardRate
    /\ \E r \in RideIds :
        /\ rides[r].status = "completed"
        /\ rides[r].finalFare = rides[r].estimatedFare
        /\ rides[r].finalFare # Some(ToFixed2(EstimatedFare(rates, Val(rides[r].distanceKm))))

\* C14: in src/index.js a complete request that reports success has set the
\* ride's finalFare to its estimatedFare, and its response step adds exactly
\* that fare to the walletBalance of the completing driver and leaves every
\* other driver's walletBalance as it was.
C14_IndexCompleteCreditsDriver ==
    [][server = "index" =>
        \A x \in NewResponses : (x.op = "complete" /\ x.code = 200) =>
            /\ rides[x.ride].finalFare = rides[x.ride].estimatedFare
            /\ rides[x.ride].finalFare # Null
            /\ x.caller \in DOMAIN wallet /\ x.caller \in DOMAIN wallet'
            /\ wallet'[x.caller] = wallet[x.caller] + Val(rides[x.ride].finalFare)
            /\ \A d \in DOMAIN wallet \ {x.caller} :
                d \in DOMAIN wallet' /\ wallet'[d] = wallet[d]]_vars

\* C15: in src/index.js a get, accept, cancel or complete request that names
\* a well-formed id of no stored ride is answered 404 (or 403, where the
\* route is for drivers and the caller is none), never 409 or success.
C15_IndexUnknownRideIs404 ==
    server = "index" =>
        \A x \in Responses :
            (x.ride = UnknownRide /\ x.op \in {"get", "accept", "cancel", "complete"}) =>
                \/ x.code = 404
                \/ x.code = 403 /\ x.op \in {"accept", "complete"} /\ Role(x.caller) # "driver"

C16_IndexDbFailureAnswered ==
    server = "index" => \A q \in Pending : q.pc # "rejected"

\* C17: in src/index.js a registration request without email or without
\* password is answered 400 and creates no account, and a registration is
\* answered 409 only when its collection already holds an account with the
\* request's email.
C17_IndexRegisterValidates ==
    [][server = "index" =>
        \A x \in NewResponses : x.op = "register" =>
            /\ (x.body[2] = Null \/ x.body[3] = Null) =>
                  (x.code = 400 /\ accounts' = accounts)
            /\ x.code = 409 => EmailTaken(x.body[1], x.body[2])]_vars

\* C18: in src/index.js no two accounts, of the same collection or of
\* different collections, have the same email address.
C18_IndexEmailUnique ==
    server = "index" =>
        \A c, d \in Collections : \A i \in 1..Len(accounts[c]), j \in 1..Len(accounts[d]) :
            (accounts[c][i].email # Null /\ (c # d \/ i # j))
                => accounts[c][i].email # accounts[d][j].email

\* C19: in src/index.js and in src/unnamed/part_000, once a ride's driverId
\* is not null no step of any request changes it, to another driver or back
\* to null.
C19_DriverIdIsStable ==
    [][\A r \in RideIds :
          rides[r].driverId # Null => rides'[r].driverId = rides[r].driverId]_vars

\* A ride has a driver, and another driver's accept of it has been refused.
C19_Witness ==
    \E r \in RideIds :
        /\ rides[r].driverId \in Drivers
        /\ \E x \in Responses :
            /\ x.op = "accept" /\ x.ride = r /\ x.code = 409
            /\ x.caller \in Drivers /\ x.caller # rides[r].driverId

\* The caller of a complete request is the driver of the ride it names.
IsDriverOf(u, r) == Role(u) = "driver" /\ Stored(r) /\ rides[r].driverId = u

\* C21: in src/index.js a step of a complete request changes a ride or a
\* wallet only if the caller is a driver whose id is the ride's driverId; a
\* complete request of any other caller changes no ride and no wallet and,
\* when the id in its URL is well formed, is answered 403 or 404.
C21_IndexCompleteOnlyByDriverOfRide ==
    [][server = "index" =>
        /\ \A x \in NewResponses :
            (x.op = "complete" /\ ~IsDriverOf(x.caller, x.ride)) =>
                /\ rides' = rides /\ wallet' = wallet
                /\ (ObjectIdIsValid(x.ride) => x.code \in {403, 404})
        /\ \A q \in Admitted \cup Resumed :
            q.op = "complete" => IsDriverOf(q.caller, q.ride)
        /\ (wallet' # wallet \/ \E r \in RideIds : rides'[r].finalFare # rides[r].finalFare) =>
            \E q \in Resumed : q.op = "complete" /\ IsDriverOf(q.caller, q.ride)]_vars

\* Another driver's complete of an accepted ride has been answered 404.
C21_Witness ==
    /\ server = "index"
    /\ \E x \in Responses :
        /\ x.op = "complete" /\ x.code = 404 /\ Stored(x.ride)
        /\ x.caller \in Drivers
        /\ rides[x.ride].driverId \in Drivers \ {x.caller}

\* Sum of finalFare over the first n rides that are completed and whose
\* driverId is d.
RECURSIVE Earned(_, _)
Earned(d, n) ==
    IF n = 0 THEN 0
    ELSE Earned(d, n - 1)
         + (IF rides[n].status = "completed" /\ rides[n].driverId = d
            THEN Val(rides[n].finalFare) ELSE 0)

\* C25: in src/index.js, whenever no complete request is in progress, the
\* walletBalance of each existing driver is the sum of finalFare over the
\* completed rides of that driver, each ride counted once.
C25_IndexWalletIsSumOfFinalFares ==
    (server = "index" /\ \A q \in Pending : q.op # "complete") =>
        \A d \in DOMAIN wallet : wallet[d] = Earned(d, Len(rides))

\* The stored accounts that a login with these credentials claims: those
\* with this email whose hash the password matches.
AccountsOf(email, password) ==
    {<<c, i>> \in Collections \X (1..Cardinality(Emails)) :
        /\ i <= Len(accounts[c])
        /\ accounts[c][i].email = email
        /\ Compare(password, accounts[c][i].passwordHash)}

\* C22: in src/index.js a login with the correct email and password of an
\* account whose isBlocked is true is answered 403 and issues no token; a
\* login with the correct email and password of an account that the admin
\* has unblocked, and that is not blocked, succeeds.
C22_IndexBlockedCannotLogin ==
    [][server = "index" =>
        \A x \in NewResponses : x.op = "login" =>
            \A a \in AccountsOf(x.body[1], x.body[2]) :
                LET user == accounts[a[1]][a[2]]
                    id == AccountId(a[1], a[2])
                IN  /\ user.isBlocked => (x.code = 403 /\ x.data = Null)
                    /\ (/\ ~user.isBlocked
                        /\ \E y \in Responses :
                             y.op = "block" /\ y.code = 200 /\ y.body = <<id, FALSE>>)
                         => x.code = 200]_vars

\* C26: in src/index.js a login with the email and password of a registered
\* account that is not blocked is answered with a token whose id and role
\* are those of that account.
C26_IndexLoginIssuesOwnToken ==
    [][server = "index" =>
        \A x \in NewResponses : x.op = "login" =>
            \A a \in AccountsOf(x.body[1], x.body[2]) :
                LET user == accounts[a[1]][a[2]]
                IN  ~user.isBlocked =>
                        /\ x.code = 200
                        /\ x.data # Null
                        /\ x.data[1] = AccountId(a[1], a[2])
                        /\ x.data[3] = user.role]_vars

\* The rides a list names.
Listed(list) == {list[k] : k \in 1..Len(list)}

\* C24: in src/index.js an available request gets past the lookup of its
\* driver only if the caller has role 'driver' and the stored
\* availabilityStatus of that driver is 'online', and is answered 403 or 404
\* otherwise; the list it returns names, once each, exactly the rides whose
\* status is 'requested' when the rides are read.
C24_IndexAvailableListsRequested ==
    [][server = "index" =>
        /\ \A q \in Admitted : q.op = "available" =>
            /\ Role(q.caller) = "driver"
            /\ q.caller \in DOMAIN profile
            /\ profile[q.caller].availabilityStatus = "online"
        /\ \A x \in NewResponses : x.op = "available" =>
            IF x.code = 200
            THEN /\ \E q \in Resumed : q.op = "available" /\ q.caller = x.caller
                 /\ Listed(x.data) = {r \in RideIds : rides[r].status = "requested"}
                 /\ Len(x.data) = Cardinality(Listed(x.data))
            ELSE /\ x.code \in {403, 404}
                 /\ x.data = Null
                 /\ \/ Role(x.caller) # "driver"
                    \/ x.caller \notin DOMAIN profile
                    \/ profile[x.caller].availabilityStatus # "online"]_vars

\* An online driver has been given a list that names the requested ride and
\* not the accepted one.
C24_Witness ==
    /\ server = "index"
    /\ \E x \in Responses :
        /\ x.op = "available" /\ x.code = 200
        /\ x.caller \in DOMAIN profile
        /\ \E r \in Listed(x.data) : rides[r].status = "requested"
        /\ \E r \in RideIds \ Listed(x.data) : rides[r].status = "accepted"

\* C23: in src/index.js a request to a protected route without a token is
\* answered 401 and one with a token that fails verification 403, neither
\* changes a ride, an account, a driver or the rate, and neither is taken up
\* by a handler; a request to an admin route whose token's role is not
\* 'admin' changes nothing either.
C23_IndexRoutesNeedToken ==
    [][server = "index" =>
        /\ \A x \in NewResponses : x.op \in ProtectedOps =>
            /\ x.caller = Anonymous => x.code = 401
            /\ x.caller = InvalidToken => x.code = 403
            /\ (\/ x.caller \in {Anonymous, InvalidToken}
                \/ x.op \in AdminOps /\ Role(x.caller) # "admin")
                 => UNCHANGED <<rides, accounts, profile, wallet, rates>>
        /\ \A q \in Admitted \cup Resumed : q.caller \notin {Anonymous, InvalidToken}
        /\ (rates' # rates \/ accounts' # accounts \/ DOMAIN profile' # DOMAIN profile) =>
            \E x \in NewResponses : x.op \in AdminOps /\ Role(x.caller) = "admin"]_vars

\* A cancel of a requested ride without a token has been answered 401, and
\* a rate update with an invalid token 403.
C23_Witness ==
    /\ server = "index"
    /\ \E x \in Responses :
        /\ x.caller = Anonymous /\ x.op = "cancel" /\ x.code = 401
        /\ Stored(x.ride) /\ rides[x.ride].status = "requested"
    /\ \E x \in Responses : x.caller = InvalidToken /\ x.op = "rates" /\ x.code = 403
====
